---- MODULE Spec2Model ----
(***************************************************************************)
(* A model of the HL7 receiving service of src/hl7_server.py: the         *)
(* per-connection framing loop (handle_client), message processing        *)
(* (process_message), the directory-backed bounded store (save_message,   *)
(* count_message_files, cleanup_old_files) and the store lock.            *)
(*                                                                         *)
(* A byte of the wire is one symbol.  "FS" is 0x1C, "CR" is 0x0D, "SP" is  *)
(* a blank, "L" and "T" are the lead and the trail byte of one two-byte    *)
(* UTF-8 character (decoded: "U").  "A", "B", "H" and "S" each stand for   *)
(* the text of one MSH segment ("H" one of nine fields, "S" one of four),  *)
(* "P" for the text of one other segment (PID, OBX): the framing code      *)
(* looks at terminators and white space only, so a run of other bytes is   *)
(* carried as one symbol.                                                  *)
(*                                                                         *)
(* The main thread's start(), stop() and the signal handler of main() are  *)
(* the server's life cycle; create_ack and create_nak build replies as     *)
(* sequences of characters and field values.                               *)
(***************************************************************************)
EXTENDS Integers, Sequences, FiniteSets, TLC

\* ------------------------------------------------------------ bounds
NumWorkers == 2
MaxStream == 5
MaxCap == 2
MaxInitFiles == 2
MaxTime == 1
MaxSignals == 1
MaxConnStream == 4
MaxOver == 2
MaxSweepCap == 4
MaxSweepStream == 6

\* ------------------------------------------------------------ program constants
\* error_msg[:100]
ErrorLimit == 100

Workers == 1..NumWorkers

VARIABLES
    max_files,      \* self.max_files
    files,          \* the *.hl7 records of self.message_dir
    undeletable,    \* names whose unlink() raises
    now,            \* the clock, in whole seconds
    file_lock,      \* self.file_lock: 0 free, else the worker holding it
    running,        \* self.running
    pc,             \* each connection worker's position
    stream,         \* bytes the peer has still to deliver before it closes
    buffer,         \* handle_client's buffer
    message_text,   \* process_message's message_text
    current_count,  \* save_message's current_count
    filepath,       \* save_message's filepath
    saved,          \* whether the save of the current message wrote its record
    evicted,        \* whether the save of the current message ran a sweep
    sent,           \* the messages each peer sends (input, never changed)
    handed,         \* the texts handed to process_message, in order
    replies,        \* the replies written to each client socket, in order
    lastCut,        \* the last extraction step of each worker
    lastSweep,      \* the last eviction sweep
    in_flight,      \* the saves under way when the store first reached
                    \* max_files records (-1: it has not yet)
    io_faults,      \* whether recv and send may raise in this run
    closes,         \* the calls of client_socket.close() of each worker
    exit_path,      \* how each worker left the loop of handle_client
    lost,           \* the replies of each worker whose send raised
    srv_pc,         \* the main thread's position in start()
    server_socket,  \* self.server_socket: "none", "open" or "closed"
    close_calls,    \* the calls of self.server_socket.close()
    stop_pc,        \* the position of another thread's call of stop()
    signals,        \* the SIGINT/SIGTERM deliveries handled so far
    last_accept,    \* the outcome of accept() in this pass of the loop
    stop_requested, \* whether a stop was requested while the server ran
    polls_after_stop, \* the accept() calls made since that request
    call,           \* the last call of create_ack or create_nak
    result,         \* what that call returned
    save_log        \* the calls of save_message that have ended, in order

vars == <<max_files, files, undeletable, now, file_lock, running, pc, stream,
          buffer, message_text, current_count, filepath, saved, evicted,
          sent, handed, replies, lastCut, lastSweep, in_flight, io_faults,
          closes, exit_path, lost, srv_pc, server_socket, close_calls,
          stop_pc, signals, last_accept, stop_requested, polls_after_stop,
          call, result, save_log>>

\* the variables of the connection handlers' exits, of the server's life
\* cycle, and of the calls of the reply builders
connVars == <<io_faults, closes, exit_path, lost>>
srvVars == <<srv_pc, server_socket, close_calls, stop_pc, signals,
             last_accept, stop_requested, polls_after_stop>>
fnVars == <<call, result>>
storeVars == <<max_files, files, undeletable, now, file_lock, lastSweep,
               in_flight, save_log>>
workerVars == <<stream, buffer, message_text, current_count, filepath, saved,
                evicted, sent, handed, replies, lastCut>>

\* ------------------------------------------------------------ text
FS == "FS"
CR == "CR"
SP == "SP"

\* str.isspace(): Python counts 0x1C and 0x0D as white space
IsSpace(c) == c \in {SP, CR, FS}

\* buffer.find(c): the 0-based index of the first c, -1 when there is none
Find(buf, c) ==
    IF \E i \in 1..Len(buf) : buf[i] = c
    THEN (CHOOSE i \in 1..Len(buf) :
              buf[i] = c /\ \A j \in 1..(i - 1) : buf[j] # c) - 1
    ELSE -1

\* buf[a:b] and buf[a:], 0-based
Slice(buf, a, b) == SubSeq(buf, a + 1, b)
SliceFrom(buf, a) == SubSeq(buf, a + 1, Len(buf))

RECURSIVE LStrip(_)
LStrip(s) == IF s # <<>> /\ IsSpace(Head(s)) THEN LStrip(Tail(s)) ELSE s

RECURSIVE RStrip(_)
RStrip(s) ==
    IF s # <<>> /\ IsSpace(s[Len(s)])
    THEN RStrip(SubSeq(s, 1, Len(s) - 1))
    ELSE s

\* str.strip()
StripNothing(s) == s
Strip(s) == RStrip(LStrip(s))

\* bytes.decode('utf-8', errors='ignore') of one chunk: a lead byte with its
\* trail byte is one character, a lead byte without one and a trail byte
\* without a lead byte are dropped
RECURSIVE Decode(_)
Decode(bytes) ==
    IF bytes = <<>> THEN <<>>
    ELSE IF Head(bytes) = "L"
         THEN IF Len(bytes) >= 2 /\ bytes[2] = "T"
              THEN <<"U">> \o Decode(SubSeq(bytes, 3, Len(bytes)))
              ELSE Decode(Tail(bytes))
         ELSE IF Head(bytes) = "T"
              THEN Decode(Tail(bytes))
              ELSE <<Head(bytes)>> \o Decode(Tail(bytes))

\* '\x1c' in buffer or '\r' in buffer
HasTerminator(buf) == Find(buf, FS) # -1 \/ Find(buf, CR) # -1

\* the boundary of the framing loop: the first 0x1C, else the first 0x0D
EndPosEarliest(buf) ==
    IF Find(buf, FS) = -1 THEN Find(buf, CR)
    ELSE IF Find(buf, CR) = -1 THEN Find(buf, FS)
    ELSE IF Find(buf, CR) < Find(buf, FS) THEN Find(buf, CR) ELSE Find(buf, FS)
EndPos(buf) ==
    IF Find(buf, FS) = -1 THEN Find(buf, CR) ELSE Find(buf, FS)

\* ------------------------------------------------------------ headers
HeaderTokens == {"A", "B", "H", "S"}

\* len(msh) of the MSH segment a header symbol stands for
MshLen(h) == IF h = "S" THEN 4 ELSE IF h = "H" THEN 9 ELSE 12
\* str(msh[10]) and str(msh[9])
MshControlId(h) == h
MshType(h) == "O^W"

\* hl7.parse + h.segment('MSH'): the text must open with an MSH segment
ParseOk(text) == text # <<>> /\ Head(text) \in HeaderTokens
msg_control_id(text) ==
    IF MshLen(Head(text)) > 10 THEN MshControlId(Head(text)) ELSE "UNKNOWN"
msg_type(text) ==
    IF MshLen(Head(text)) > 9 THEN MshType(Head(text)) ELSE "UNKNOWN"

\* msg_type.replace('^', '_')
CaretsReplaced(t) == IF t = "O^W" THEN "O_W" ELSE t

\* the file name save_message builds; the time stamp in it has the clock's
\* whole seconds, which is what `now` counts
Filename(t, control_id, mtype) ==
    [ts |-> t, cid |-> control_id, mtype |-> CaretsReplaced(mtype)]

\* ------------------------------------------------------------ store
Names(fs) == {f.name : f \in fs}
count_message_files(fs) == Cardinality(Names(fs))
Mtime(fs, n) == (CHOOSE f \in fs : f.name = n).mtime

\* the orders in which glob() may list a directory
RECURSIVE GlobOrders(_)
GlobOrders(S) ==
    IF S = {} THEN {<<>>}
    ELSE UNION {{<<n>> \o rest : rest \in GlobOrders(S \ {n})} : n \in S}

\* list.sort(key=mtime): stable insertion sort, oldest first
RECURSIVE InsertByMtime(_, _, _)
InsertByMtime(fs, sorted, n) ==
    IF sorted = <<>> THEN <<n>>
    ELSE IF Mtime(fs, sorted[Len(sorted)]) <= Mtime(fs, n)
         THEN Append(sorted, n)
         ELSE Append(InsertByMtime(fs, SubSeq(sorted, 1, Len(sorted) - 1), n),
                     sorted[Len(sorted)])

RECURSIVE SortByMtime(_, _)
SortByMtime(fs, order) ==
    IF order = <<>> THEN <<>>
    ELSE InsertByMtime(fs,
                       SortByMtime(fs, SubSeq(order, 1, Len(order) - 1)),
                       order[Len(order)])

\* files_to_remove = len(files) // 2
FilesToRemoveOne(n) == IF n > 0 THEN 1 ELSE 0
FilesToRemove(n) == n \div 2

\* files[:files_to_remove]
SelectedNewest(fs, order) ==
    LET sorted == SortByMtime(fs, order)
        k == FilesToRemove(Len(sorted))
    IN {sorted[i] : i \in (Len(sorted) - k + 1)..Len(sorted)}
Selected(fs, order) ==
    LET sorted == SortByMtime(fs, order)
    IN {sorted[i] : i \in 1..FilesToRemove(Len(sorted))}

\* cleanup_old_files: the records left, with glob() listing in `order` and
\* unlink() raising for the names in `undel`
cleanup_old_files_aborting(fs, order, undel) ==
    LET sorted == SortByMtime(fs, order)
        k == FilesToRemove(Len(sorted))
        failed == {i \in 1..k : sorted[i] \in undel}
        done == IF failed = {} THEN k
                ELSE (CHOOSE i \in failed : \A j \in failed : i <= j) - 1
    IN {f \in fs : f.name \notin {sorted[i] : i \in 1..done}}
cleanup_old_files(fs, order, undel) ==
    {f \in fs : f.name \notin (Selected(fs, order) \ undel)}


\* ------------------------------------------------------------ inputs
\* message texts as they travel: one segment, two segments, one with a
\* two-byte character
Bodies == {<<"A">>, <<"A", CR, "P">>, <<"B">>, <<"B", "L", "T">>}

\* what ends a message on the wire: the hard terminator, the hard terminator
\* with MLLP's trailing carriage return, or (one segment only) the soft one
Endings(body) ==
    {<<FS>>, <<FS, CR>>} \cup (IF Find(body, CR) = -1 THEN {<<CR>>} ELSE {})

WireMessages ==
    UNION {{[text |-> Decode(b), wire |-> b \o e] : e \in Endings(b)} :
           b \in Bodies}

\* the sequences of messages whose bytes number at most `budget`
RECURSIVE MessageLists(_)
MessageLists(budget) ==
    {<<>>} \cup
    UNION {{<<m>> \o rest : rest \in MessageLists(budget - Len(m.wire))} :
           m \in {x \in WireMessages : Len(x.wire) <= budget}}

RECURSIVE Wire(_)
Wire(msgs) == IF msgs = <<>> THEN <<>> ELSE Head(msgs).wire \o Wire(Tail(msgs))

Texts(msgs) == [i \in 1..Len(msgs) |-> msgs[i].text]

\* records found in the directory at start-up
InitialFiles(n) ==
    {[name |-> [ts |-> -i, cid |-> "OLD", mtype |-> "OLD"],
      mtime |-> -((i + 1) \div 2),
      body |-> [text |-> <<>>, from |-> 0, received |-> -i],
      complete |-> TRUE] : i \in 1..n}

NoCut == [n |-> 0, before |-> <<>>, end_pos |-> -1, text |-> <<>>, after |-> <<>>]
NoSweep == [n |-> 0, by |-> 0, lock |-> 0, before |-> {}, after |-> {}]

NoCall == [fn |-> "none"]

\* no connection has ended; recv and send raise only in the runs with faults
InitConn(faults) ==
    /\ io_faults \in faults
    /\ closes = [w \in Workers |-> 0]
    /\ exit_path = [w \in Workers |-> "none"]
    /\ lost = [w \in Workers |-> 0]

\* start() has reached its accept loop and nobody has asked it to stop
ServerRunning ==
    /\ srv_pc = "accept"
    /\ server_socket = "open"
    /\ close_calls = 0
    /\ stop_pc = "idle"
    /\ signals = 0
    /\ last_accept = "none"
    /\ stop_requested = FALSE
    /\ polls_after_stop = 0

NoCalls == call = NoCall /\ result = <<>>

\* client_socket.send: returns, or raises on a connection the peer has reset
SendOutcomes == IF io_faults THEN BOOLEAN ELSE {TRUE}

\* __init__: one sweep when the directory holds more than max_files records
InitStore(caps, counts) ==
    /\ max_files \in caps
    /\ \E n \in counts :
         IF count_message_files(InitialFiles(n)) > max_files
         THEN \E order \in GlobOrders(Names(InitialFiles(n))) :
                /\ files = cleanup_old_files(InitialFiles(n), order, {})
                /\ lastSweep = [n |-> 1, by |-> 0, lock |-> 0,
                                before |-> InitialFiles(n),
                                after |-> cleanup_old_files(InitialFiles(n),
                                                            order, {})]
         ELSE /\ files = InitialFiles(n)
              /\ lastSweep = NoSweep
    /\ undeletable = {}
    /\ now = 0
    /\ file_lock = 0
    /\ in_flight = IF count_message_files(files) >= max_files THEN 0 ELSE -1
    /\ save_log = <<>>

InitWorkers ==
    /\ message_text = [w \in Workers |-> <<>>]
    /\ current_count = [w \in Workers |-> 0]
    /\ filepath = [w \in Workers |-> Filename(0, "UNKNOWN", "UNKNOWN")]
    /\ saved = [w \in Workers |-> FALSE]
    /\ evicted = [w \in Workers |-> FALSE]
    /\ handed = [w \in Workers |-> <<>>]
    /\ replies = [w \in Workers |-> <<>>]
    /\ lastCut = [w \in Workers |-> NoCut]

\* the server is running and has accepted one connection, whose peer sends
\* any list of messages and closes
Init ==
    /\ InitStore(1..MaxCap, {0})
    /\ InitWorkers
    /\ InitConn({FALSE})
    /\ ServerRunning
    /\ NoCalls
    /\ running = TRUE
    /\ \E msgs \in MessageLists(MaxStream) :
         /\ sent = [w \in Workers |-> IF w = 1 THEN msgs ELSE <<>>]
         /\ stream = [w \in Workers |-> IF w = 1 THEN Wire(msgs) ELSE <<>>]
    /\ buffer = [w \in Workers |-> <<>>]
    /\ pc = [w \in Workers |-> IF w = 1 THEN "loop" ELSE "closed"]

\* the message of the store runs
StoreMessages == {[text |-> <<"A">>, wire |-> <<"A", FS>>]}

\* the server is running over a directory with records in it, and every
\* worker has read one whole message from its peer and is calling
\* process_message with it
InitStoreRun ==
    /\ InitStore(1..MaxCap, 0..MaxInitFiles)
    /\ InitConn({FALSE})
    /\ ServerRunning
    /\ NoCalls
    /\ running = TRUE
    /\ \E msgs \in [Workers -> StoreMessages] :
         /\ sent = [w \in Workers |-> <<msgs[w]>>]
         /\ message_text = [w \in Workers |-> msgs[w].text]
         /\ handed = [w \in Workers |-> <<msgs[w].text>>]
         /\ lastCut = [w \in Workers |->
                          [n |-> 1, before |-> msgs[w].wire, end_pos |-> 1,
                           text |-> msgs[w].text, after |-> <<>>]]
    /\ stream = [w \in Workers |-> <<>>]
    /\ buffer = [w \in Workers |-> <<>>]
    /\ pc = [w \in Workers |-> "parse"]
    /\ current_count = [w \in Workers |-> 0]
    /\ filepath = [w \in Workers |-> Filename(0, "UNKNOWN", "UNKNOWN")]
    /\ saved = [w \in Workers |-> FALSE]
    /\ evicted = [w \in Workers |-> FALSE]
    /\ replies = [w \in Workers |-> <<>>]

\* ------------------------------------------------------------ handle_client
\* while self.running:
HandleClientLoopIgnoringStop(w) ==
    /\ pc[w] = "loop"
    /\ pc' = [pc EXCEPT ![w] = "recv"]
    /\ UNCHANGED <<io_faults, closes, exit_path, lost>>
    /\ UNCHANGED <<max_files, files, undeletable, now, file_lock, running,
                   stream, buffer, message_text, current_count, filepath,
                   saved, evicted, sent, handed, replies, lastCut, lastSweep,
                   in_flight>>
    /\ UNCHANGED <<srvVars, fnVars, save_log>>
HandleClientLoop(w) ==
    /\ pc[w] = "loop"
    /\ pc' = [pc EXCEPT ![w] = IF running THEN "recv" ELSE "close"]
    /\ exit_path' = [exit_path EXCEPT
                       ![w] = IF running THEN exit_path[w] ELSE "stopped"]
    /\ UNCHANGED <<io_faults, closes, lost>>
    /\ UNCHANGED <<max_files, files, undeletable, now, file_lock, running,
                   stream, buffer, message_text, current_count, filepath,
                   saved, evicted, sent, handed, replies, lastCut, lastSweep,
                   in_flight>>
    /\ UNCHANGED <<srvVars, fnVars, save_log>>

\* data = client_socket.recv(4096).decode(...); if not data: break;
\* buffer += data.  recv returns any non-empty prefix of what is still to
\* come, and nothing once the peer has closed; it may raise (connection
\* reset), which the except clause of handle_client logs before the finally.
HandleClientRecv(w) ==
    /\ pc[w] = "recv"
    /\ \/ /\ io_faults
          /\ pc' = [pc EXCEPT ![w] = "close"]
          /\ exit_path' = [exit_path EXCEPT ![w] = "recv_error"]
          /\ UNCHANGED <<stream, buffer>>
       \/ IF stream[w] = <<>>
          THEN /\ pc' = [pc EXCEPT ![w] = "close"]
               /\ exit_path' = [exit_path EXCEPT ![w] = "empty_read"]
               /\ UNCHANGED <<stream, buffer>>
          ELSE \E n \in 1..Len(stream[w]) :
                 LET data == Decode(SubSeq(stream[w], 1, n))
                 IN /\ stream' = [stream EXCEPT
                                    ![w] = SubSeq(stream[w], n + 1,
                                                  Len(stream[w]))]
                    /\ IF data = <<>>
                       THEN /\ pc' = [pc EXCEPT ![w] = "close"]
                            /\ exit_path' = [exit_path EXCEPT
                                               ![w] = "empty_read"]
                            /\ UNCHANGED buffer
                       ELSE /\ pc' = [pc EXCEPT ![w] = "scan"]
                            /\ buffer' = [buffer EXCEPT
                                            ![w] = buffer[w] \o data]
                            /\ UNCHANGED exit_path
    /\ UNCHANGED <<io_faults, closes, lost>>
    /\ UNCHANGED <<max_files, files, undeletable, now, file_lock, running,
                   message_text, current_count, filepath, saved, evicted,
                   sent, handed, replies, lastCut, lastSweep,
                   in_flight>>
    /\ UNCHANGED <<srvVars, fnVars, save_log>>

\* while '\x1c' in buffer or '\r' in buffer: one pass of the inner loop, up
\* to the call of process_message
HandleClientScan(w) ==
    /\ pc[w] = "scan"
    /\ IF HasTerminator(buffer[w])
       THEN LET end_pos == EndPos(buffer[w])
                message == Strip(Slice(buffer[w], 0, end_pos))
                rest == SliceFrom(buffer[w], end_pos + 1)
            IN /\ buffer' = [buffer EXCEPT ![w] = rest]
               /\ lastCut' = [lastCut EXCEPT
                                ![w] = [n |-> lastCut[w].n + 1,
                                        before |-> buffer[w],
                                        end_pos |-> end_pos,
                                        text |-> message,
                                        after |-> rest]]
               /\ IF message # <<>>
                  THEN /\ pc' = [pc EXCEPT ![w] = "parse"]
                       /\ message_text' = [message_text EXCEPT ![w] = message]
                       /\ handed' = [handed EXCEPT ![w] = Append(handed[w], message)]
                  ELSE UNCHANGED <<pc, message_text, handed>>
       ELSE /\ pc' = [pc EXCEPT ![w] = "loop"]
            /\ UNCHANGED <<buffer, lastCut, message_text, handed>>
    /\ UNCHANGED <<max_files, files, undeletable, now, file_lock, running,
                   stream, current_count, filepath, saved, evicted, sent,
                   replies, lastSweep,
                   in_flight>>
    /\ UNCHANGED <<connVars, srvVars, fnVars, save_log>>

\* finally: client_socket.close()
HandleClientCloseLeak(w) ==
    /\ pc[w] = "close"
    /\ pc' = [pc EXCEPT ![w] = "closed"]
    /\ UNCHANGED <<io_faults, closes, exit_path, lost>>
    /\ UNCHANGED <<max_files, files, undeletable, now, file_lock, running,
                   stream, buffer, message_text, current_count, filepath,
                   saved, evicted, sent, handed, replies, lastCut, lastSweep,
                   in_flight>>
    /\ UNCHANGED <<srvVars, fnVars, save_log>>
HandleClientClose(w) ==
    /\ pc[w] = "close"
    /\ closes' = [closes EXCEPT ![w] = closes[w] + 1]
    /\ pc' = [pc EXCEPT ![w] = "closed"]
    /\ UNCHANGED <<io_faults, exit_path, lost>>
    /\ UNCHANGED <<max_files, files, undeletable, now, file_lock, running,
                   stream, buffer, message_text, current_count, filepath,
                   saved, evicted, sent, handed, replies, lastCut, lastSweep,
                   in_flight>>
    /\ UNCHANGED <<srvVars, fnVars, save_log>>


\* ------------------------------------------------------------ process_message
\* h = hl7.parse(...); msh = h.segment('MSH'); the header fields
ProcessMessageParse(w) ==
    /\ pc[w] = "parse"
    /\ saved' = [saved EXCEPT ![w] = FALSE]
    /\ evicted' = [evicted EXCEPT ![w] = FALSE]
    /\ pc' = [pc EXCEPT ![w] = IF ParseOk(message_text[w]) THEN "lock" ELSE "nak"]
    /\ UNCHANGED <<max_files, files, undeletable, now, file_lock, running,
                   stream, buffer, message_text, current_count, filepath,
                   sent, handed, replies, lastCut, lastSweep,
                   in_flight>>
    /\ UNCHANGED <<connVars, srvVars, fnVars, save_log>>

\* ------------------------------------------------------------ save_message
\* the worker is inside save_message
InSaveMessage(w) == pc[w] \in {"lock", "count", "cleanup", "open", "write", "unlock"}
\* the worker is between the read of the record count and the end of its write
InCritical(w) == pc[w] \in {"count", "cleanup", "open", "write", "unlock"}

\* with self.file_lock:
SaveMessageLockNoWait(w) ==
    /\ pc[w] = "lock"
    /\ file_lock' = w
    /\ pc' = [pc EXCEPT ![w] = "count"]
    /\ UNCHANGED <<max_files, files, undeletable, now, running, stream,
                   buffer, message_text, current_count, filepath, saved,
                   evicted, sent, handed, replies, lastCut, lastSweep,
                   in_flight>>
    /\ UNCHANGED <<connVars, srvVars, fnVars, save_log>>
SaveMessageLock(w) ==
    /\ pc[w] = "lock"
    /\ file_lock = 0
    /\ file_lock' = w
    /\ pc' = [pc EXCEPT ![w] = "count"]
    /\ UNCHANGED <<max_files, files, undeletable, now, running, stream,
                   buffer, message_text, current_count, filepath, saved,
                   evicted, sent, handed, replies, lastCut, lastSweep,
                   in_flight>>
    /\ UNCHANGED <<connVars, srvVars, fnVars, save_log>>

\* current_count = self.count_message_files();
\* if current_count >= self.max_files:
SaveMessageCount(w) ==
    /\ pc[w] = "count"
    /\ current_count' = [current_count EXCEPT ![w] = count_message_files(files)]
    /\ pc' = [pc EXCEPT
                ![w] = IF count_message_files(files) >= max_files
                       THEN "cleanup" ELSE "open"]
    /\ UNCHANGED <<max_files, files, undeletable, now, file_lock, running,
                   stream, buffer, message_text, filepath, saved, evicted,
                   sent, handed, replies, lastCut, lastSweep,
                   in_flight>>
    /\ UNCHANGED <<connVars, srvVars, fnVars, save_log>>

\* self.cleanup_old_files()
SaveMessageCleanup(w) ==
    /\ pc[w] = "cleanup"
    /\ \E order \in GlobOrders(Names(files)) :
         /\ files' = cleanup_old_files(files, order, undeletable)
         /\ lastSweep' = [n |-> lastSweep.n + 1, by |-> w, lock |-> file_lock,
                          before |-> files,
                          after |-> cleanup_old_files(files, order, undeletable)]
    /\ evicted' = [evicted EXCEPT ![w] = TRUE]
    /\ pc' = [pc EXCEPT ![w] = "open"]
    /\ UNCHANGED <<max_files, undeletable, now, file_lock, running, stream,
                   buffer, message_text, current_count, filepath, saved,
                   sent, handed, replies, lastCut,
                   in_flight>>
    /\ UNCHANGED <<connVars, srvVars, fnVars, save_log>>

\* timestamp = datetime.datetime.now(); filename = ...;
\* open(filepath, 'w'): creates the file, or empties the one of that name;
\* raises when the file cannot be created.  The clock is read here and
\* nowhere else: it may have advanced by any amount since the last read.
SaveMessageOpen(w) ==
    /\ pc[w] = "open"
    /\ \E t \in now..MaxTime, ok \in BOOLEAN :
         LET name == Filename(t, msg_control_id(message_text[w]),
                              msg_type(message_text[w]))
         IN /\ now' = t
            /\ filepath' = [filepath EXCEPT ![w] = name]
            /\ IF ok
               THEN /\ files' = {f \in files : f.name # name} \cup
                                {[name |-> name, mtime |-> t,
                                  body |-> [text |-> <<>>, from |-> w,
                                            received |-> t],
                                  complete |-> FALSE]}
                    /\ pc' = [pc EXCEPT ![w] = "write"]
               ELSE /\ UNCHANGED files
                    /\ pc' = [pc EXCEPT ![w] = "unlock"]
    /\ in_flight' = IF in_flight = -1 /\ count_message_files(files') >= max_files
                    THEN Cardinality({v \in Workers : InSaveMessage(v)})
                    ELSE in_flight
    /\ UNCHANGED <<max_files, undeletable, file_lock, running, stream, buffer,
                   message_text, current_count, saved, evicted, sent, handed,
                   replies, lastCut, lastSweep>>
    /\ UNCHANGED <<connVars, srvVars, fnVars, save_log>>

\* the f.write calls and the close of the file; a write may raise and leave
\* the file as it is
SaveMessageWrite(w) ==
    /\ pc[w] = "write"
    /\ \E ok \in BOOLEAN :
         IF ok
         THEN /\ files' = {f \in files : f.name # filepath[w]} \cup
                          {[name |-> filepath[w], mtime |-> now,
                            body |-> [text |-> message_text[w], from |-> w,
                                      received |-> now],
                            complete |-> TRUE]}
              /\ saved' = [saved EXCEPT ![w] = TRUE]
         ELSE UNCHANGED <<files, saved>>
    /\ pc' = [pc EXCEPT ![w] = "unlock"]
    /\ UNCHANGED <<max_files, undeletable, now, file_lock, running, stream,
                   buffer, message_text, current_count, filepath, evicted,
                   sent, handed, replies, lastCut, lastSweep,
                   in_flight>>
    /\ UNCHANGED <<connVars, srvVars, fnVars, save_log>>

\* the end of the with block (the except clause has swallowed any failure)
SaveMessageUnlock(w) ==
    /\ pc[w] = "unlock"
    /\ file_lock' = 0
    /\ save_log' = Append(save_log, [by |-> w, swept |-> evicted[w],
                                     wrote |-> saved[w],
                                     name |-> filepath[w]])
    /\ pc' = [pc EXCEPT ![w] = "ack"]
    /\ UNCHANGED <<max_files, files, undeletable, now, running, stream,
                   buffer, message_text, current_count, filepath, saved,
                   evicted, sent, handed, replies, lastCut, lastSweep,
                   in_flight>>
    /\ UNCHANGED <<connVars, srvVars, fnVars>>

\* ack_message = self.create_ack(msh); client_socket.send(...).
\* create_ack reads original_msh[3] and original_msh[4]: an IndexError for a
\* shorter header.  A send that raises lands in the except clause too.
ProcessMessageAckDeferred(w) ==
    /\ pc[w] = "ack"
    /\ IF MshLen(Head(message_text[w])) > 4
       THEN \E ok \in SendOutcomes :
              IF ok
              THEN /\ UNCHANGED replies
                   /\ pc' = [pc EXCEPT ![w] = "scan"]
                   /\ UNCHANGED lost
              ELSE /\ lost' = [lost EXCEPT ![w] = lost[w] + 1]
                   /\ pc' = [pc EXCEPT ![w] = "nak"]
                   /\ UNCHANGED replies
       ELSE /\ UNCHANGED <<replies, lost>>
            /\ pc' = [pc EXCEPT ![w] = "nak"]
    /\ UNCHANGED <<io_faults, closes, exit_path>>
    /\ UNCHANGED <<max_files, files, undeletable, now, file_lock, running,
                   stream, buffer, message_text, current_count, filepath,
                   saved, evicted, sent, handed, lastCut, lastSweep,
                   in_flight>>
    /\ UNCHANGED <<srvVars, fnVars, save_log>>
ProcessMessageAckThenRaises(w) ==
    /\ pc[w] = "ack"
    /\ IF MshLen(Head(message_text[w])) > 4
       THEN \E ok \in SendOutcomes :
              IF ok
              THEN /\ replies' = [replies EXCEPT
                                    ![w] = Append(replies[w],
                                                  [code |-> "AA",
                                                   text |-> message_text[w],
                                                   stored |-> saved[w]])]
                   /\ pc' = [pc EXCEPT ![w] = "nak"]
                   /\ UNCHANGED lost
              ELSE /\ lost' = [lost EXCEPT ![w] = lost[w] + 1]
                   /\ pc' = [pc EXCEPT ![w] = "nak"]
                   /\ UNCHANGED replies
       ELSE /\ UNCHANGED <<replies, lost>>
            /\ pc' = [pc EXCEPT ![w] = "nak"]
    /\ UNCHANGED <<io_faults, closes, exit_path>>
    /\ UNCHANGED <<max_files, files, undeletable, now, file_lock, running,
                   stream, buffer, message_text, current_count, filepath,
                   saved, evicted, sent, handed, lastCut, lastSweep,
                   in_flight>>
    /\ UNCHANGED <<srvVars, fnVars, save_log>>
ProcessMessageAck(w) ==
    /\ pc[w] = "ack"
    /\ IF MshLen(Head(message_text[w])) > 4
       THEN \E ok \in SendOutcomes :
              IF ok
              THEN /\ replies' = [replies EXCEPT
                                    ![w] = Append(replies[w],
                                                  [code |-> "AA",
                                                   text |-> message_text[w],
                                                   stored |-> saved[w]])]
                   /\ pc' = [pc EXCEPT ![w] = "scan"]
                   /\ UNCHANGED lost
              ELSE /\ lost' = [lost EXCEPT ![w] = lost[w] + 1]
                   /\ pc' = [pc EXCEPT ![w] = "nak"]
                   /\ UNCHANGED replies
       ELSE /\ UNCHANGED <<replies, lost>>
            /\ pc' = [pc EXCEPT ![w] = "nak"]
    /\ UNCHANGED <<io_faults, closes, exit_path>>
    /\ UNCHANGED <<max_files, files, undeletable, now, file_lock, running,
                   stream, buffer, message_text, current_count, filepath,
                   saved, evicted, sent, handed, lastCut, lastSweep,
                   in_flight>>
    /\ UNCHANGED <<srvVars, fnVars, save_log>>

\* except Exception: nak_message = self.create_nak(...); send, inside a
\* try whose bare except passes: a send that raises is dropped silently
ProcessMessageNakRaises(w) ==
    /\ pc[w] = "nak"
    /\ \E ok \in SendOutcomes :
         IF ok
         THEN /\ replies' = [replies EXCEPT
                               ![w] = Append(replies[w],
                                             [code |-> "AE",
                                              text |-> message_text[w],
                                              stored |-> saved[w]])]
              /\ UNCHANGED lost
         ELSE /\ lost' = [lost EXCEPT ![w] = lost[w] + 1]
              /\ UNCHANGED replies
    /\ pc' = [pc EXCEPT ![w] = "close"]
    /\ UNCHANGED <<io_faults, closes, exit_path>>
    /\ UNCHANGED <<max_files, files, undeletable, now, file_lock, running,
                   stream, buffer, message_text, current_count, filepath,
                   saved, evicted, sent, handed, lastCut, lastSweep,
                   in_flight>>
    /\ UNCHANGED <<srvVars, fnVars, save_log>>
ProcessMessageNak(w) ==
    /\ pc[w] = "nak"
    /\ \E ok \in SendOutcomes :
         IF ok
         THEN /\ replies' = [replies EXCEPT
                               ![w] = Append(replies[w],
                                             [code |-> "AE",
                                              text |-> message_text[w],
                                              stored |-> saved[w]])]
              /\ UNCHANGED lost
         ELSE /\ lost' = [lost EXCEPT ![w] = lost[w] + 1]
              /\ UNCHANGED replies
    /\ pc' = [pc EXCEPT ![w] = "scan"]
    /\ UNCHANGED <<io_faults, closes, exit_path>>
    /\ UNCHANGED <<max_files, files, undeletable, now, file_lock, running,
                   stream, buffer, message_text, current_count, filepath,
                   saved, evicted, sent, handed, lastCut, lastSweep,
                   in_flight>>
    /\ UNCHANGED <<srvVars, fnVars, save_log>>

\* ------------------------------------------------------------ specifications
Next ==
    \E w \in Workers :
        \/ HandleClientLoop(w)
        \/ HandleClientRecv(w)
        \/ HandleClientScan(w)
        \/ HandleClientClose(w)
        \/ ProcessMessageParse(w)
        \/ SaveMessageLock(w)
        \/ SaveMessageCount(w)
        \/ SaveMessageCleanup(w)
        \/ SaveMessageOpen(w)
        \/ SaveMessageWrite(w)
        \/ SaveMessageUnlock(w)
        \/ ProcessMessageAck(w)
        \/ ProcessMessageNak(w)

Spec == Init /\ [][Next]_vars

\* the workers' concurrent calls of process_message
NextStore ==
    \E w \in Workers :
        \/ ProcessMessageParse(w)
        \/ SaveMessageLock(w)
        \/ SaveMessageCount(w)
        \/ SaveMessageCleanup(w)
        \/ SaveMessageOpen(w)
        \/ SaveMessageWrite(w)
        \/ SaveMessageUnlock(w)
        \/ ProcessMessageAck(w)

SpecStore == InitStoreRun /\ [][NextStore]_vars


\* ------------------------------------------------------------ stop
\* if self.server_socket: self.server_socket.close()
Closed(sock) == IF sock = "none" THEN "none" ELSE "closed"
CloseCalls(sock, n) == IF sock = "none" THEN n ELSE n + 1

\* the server is in its accept loop with the flag set
Running == running /\ srv_pc \in {"loop", "accept"}

\* stop() called from another thread: self.running = False
Stop ==
    /\ stop_pc = "idle"
    /\ srv_pc # "done"
    /\ running' = FALSE
    /\ stop_pc' = "flag"
    /\ stop_requested' = (stop_requested \/ Running)
    /\ UNCHANGED <<srv_pc, server_socket, close_calls, signals, last_accept,
                   polls_after_stop>>
    /\ UNCHANGED <<pc, storeVars, workerVars, connVars, fnVars>>

\* ... and its close of the listening socket
StopClose ==
    /\ stop_pc = "flag"
    /\ server_socket' = Closed(server_socket)
    /\ close_calls' = CloseCalls(server_socket, close_calls)
    /\ stop_pc' = "done"
    /\ UNCHANGED <<srv_pc, signals, last_accept, stop_requested,
                   polls_after_stop>>
    /\ UNCHANGED <<running, pc, storeVars, workerVars, connVars, fnVars>>

\* signal_handler of main(), run by the main thread wherever it is:
\* server.stop(), then sys.exit(0).  SystemExit is not an Exception: inside
\* the try of start() it passes the except clause and runs the finally;
\* raised inside the finally it ends start().
SignalHandler ==
    /\ signals < MaxSignals
    /\ srv_pc # "done"
    /\ signals' = signals + 1
    /\ running' = FALSE
    /\ server_socket' = Closed(server_socket)
    /\ close_calls' = CloseCalls(server_socket, close_calls)
    /\ stop_requested' = (stop_requested \/ Running)
    /\ srv_pc' = IF srv_pc \in {"finally", "finally_close"}
                 THEN "done" ELSE "finally"
    /\ UNCHANGED <<stop_pc, last_accept, polls_after_stop>>
    /\ UNCHANGED <<pc, storeVars, workerVars, connVars, fnVars>>

\* ------------------------------------------------------------ start
\* self.server_socket = socket.socket(...); a failure is logged by the
\* except clause and followed by the finally
StartSocket ==
    /\ srv_pc = "socket"
    /\ \E ok \in BOOLEAN :
         IF ok
         THEN server_socket' = "open" /\ srv_pc' = "bind"
         ELSE UNCHANGED server_socket /\ srv_pc' = "finally"
    /\ UNCHANGED <<close_calls, stop_pc, signals, last_accept,
                   stop_requested, polls_after_stop>>
    /\ UNCHANGED <<running, pc, storeVars, workerVars, connVars, fnVars>>

\* setsockopt, settimeout(1.0), bind, listen; bind raises when the port is
\* taken
StartBind ==
    /\ srv_pc = "bind"
    /\ \E ok \in BOOLEAN : srv_pc' = IF ok THEN "set_running" ELSE "finally"
    /\ UNCHANGED <<server_socket, close_calls, stop_pc, signals, last_accept,
                   stop_requested, polls_after_stop>>
    /\ UNCHANGED <<running, pc, storeVars, workerVars, connVars, fnVars>>

\* self.running = True
StartSetRunning ==
    /\ srv_pc = "set_running"
    /\ running' = TRUE
    /\ srv_pc' = "loop"
    /\ UNCHANGED <<server_socket, close_calls, stop_pc, signals, last_accept,
                   stop_requested, polls_after_stop>>
    /\ UNCHANGED <<pc, storeVars, workerVars, connVars, fnVars>>

\* while self.running:
StartLoopForever ==
    /\ srv_pc = "loop"
    /\ srv_pc' = "accept"
    /\ last_accept' = "none"
    /\ UNCHANGED <<server_socket, close_calls, stop_pc, signals,
                   stop_requested, polls_after_stop>>
    /\ UNCHANGED <<running, pc, storeVars, workerVars, connVars, fnVars>>
StartLoop ==
    /\ srv_pc = "loop"
    /\ srv_pc' = IF running THEN "accept" ELSE "finally"
    /\ last_accept' = "none"
    /\ UNCHANGED <<server_socket, close_calls, stop_pc, signals,
                   stop_requested, polls_after_stop>>
    /\ UNCHANGED <<running, pc, storeVars, workerVars, connVars, fnVars>>

\* what self.server_socket.accept() and the start of the client thread can
\* do: a closed socket raises socket.error at once; an open one returns a
\* connection, times out after a second, or raises
AcceptOutcomes ==
    IF server_socket = "closed" THEN {"error"}
    ELSE {"timeout", "error"} \cup
         (IF \E w \in Workers : pc[w] = "idle"
          THEN {"connection", "spawn_failed"} ELSE {})

\* one pass of the body of the accept loop: a connection starts a client
\* thread; socket.timeout continues; socket.error is logged while
\* self.running and the loop goes on; any other exception (the thread could
\* not be started) leaves the loop through the outer except clause
StartAccept ==
    /\ srv_pc = "accept"
    /\ \E outcome \in AcceptOutcomes :
         /\ last_accept' = IF outcome = "error"
                           THEN IF running THEN "error_logged"
                                ELSE "error_silent"
                           ELSE outcome
         /\ srv_pc' = IF outcome = "spawn_failed" THEN "finally" ELSE "loop"
         /\ IF outcome = "connection"
            THEN \E w \in Workers :
                   /\ pc[w] = "idle"
                   /\ pc' = [pc EXCEPT ![w] = "loop"]
            ELSE UNCHANGED pc
    /\ polls_after_stop' = IF stop_requested /\ polls_after_stop < 2
                           THEN polls_after_stop + 1 ELSE polls_after_stop
    /\ UNCHANGED <<server_socket, close_calls, stop_pc, signals,
                   stop_requested>>
    /\ UNCHANGED <<running, storeVars, workerVars, connVars, fnVars>>

\* finally: self.stop(): self.running = False
StartFinallyStop ==
    /\ srv_pc = "finally"
    /\ running' = FALSE
    /\ srv_pc' = "finally_close"
    /\ UNCHANGED <<server_socket, close_calls, stop_pc, signals, last_accept,
                   stop_requested, polls_after_stop>>
    /\ UNCHANGED <<pc, storeVars, workerVars, connVars, fnVars>>

\* ... and its close of the listening socket; start() returns
StartFinallyClose ==
    /\ srv_pc = "finally_close"
    /\ server_socket' = Closed(server_socket)
    /\ close_calls' = CloseCalls(server_socket, close_calls)
    /\ srv_pc' = "done"
    /\ UNCHANGED <<stop_pc, signals, last_accept, stop_requested,
                   polls_after_stop>>
    /\ UNCHANGED <<running, pc, storeVars, workerVars, connVars, fnVars>>

\* main() has built the server and is about to call start(); the peers that
\* will connect send nothing and close
InitServer ==
    /\ InitStore({MaxCap}, {0})
    /\ InitWorkers
    /\ InitConn({FALSE})
    /\ NoCalls
    /\ running = FALSE
    /\ sent = [w \in Workers |-> <<>>]
    /\ stream = [w \in Workers |-> <<>>]
    /\ buffer = [w \in Workers |-> <<>>]
    /\ pc = [w \in Workers |-> "idle"]
    /\ srv_pc = "socket"
    /\ server_socket = "none"
    /\ close_calls = 0
    /\ stop_pc = "idle"
    /\ signals = 0
    /\ last_accept = "none"
    /\ stop_requested = FALSE
    /\ polls_after_stop = 0

\* the steps of the main thread inside start()
MainThread ==
    \/ StartSocket
    \/ StartBind
    \/ StartSetRunning
    \/ StartLoop
    \/ StartAccept
    \/ StartFinallyStop
    \/ StartFinallyClose

NextServer ==
    \/ MainThread
    \/ Stop
    \/ StopClose
    \/ SignalHandler
    \/ \E w \in Workers :
         \/ HandleClientLoop(w)
         \/ HandleClientRecv(w)
         \/ HandleClientClose(w)

\* the main thread keeps running (accept returns within its one-second
\* timeout), and a call of stop() that has begun runs to its end
SpecServer ==
    /\ InitServer
    /\ [][NextServer]_vars
    /\ WF_vars(MainThread)
    /\ WF_vars(StopClose)


\* ------------------------------------------------------------ connection runs
\* the texts of the connection runs: a full header, a header of nine fields,
\* a header of four fields, and a text that does not open with MSH; each
\* closed by 0x1C, the full one also by 0x1C 0x0D (the 0x0D cuts an empty
\* text)
ConnTexts == {<<"A">>, <<"H">>, <<"S">>, <<"P">>}
ConnMessages ==
    {[text |-> t, wire |-> t \o <<FS>>] : t \in ConnTexts}
        \cup {[text |-> <<"A">>, wire |-> <<"A", FS, CR>>]}

\* the sequences of messages of set msgs whose bytes number at most `budget`
RECURSIVE ListsOf(_, _)
ListsOf(msgs, budget) ==
    {<<>>} \cup
    UNION {{<<m>> \o rest : rest \in ListsOf(msgs, budget - Len(m.wire))} :
           m \in {x \in msgs : Len(x.wire) <= budget}}

\* the server is running and has accepted one connection, whose peer sends
\* any list of these messages and closes; recv and send may raise in some
\* runs; another thread may call stop() at any time
InitConnRun ==
    /\ InitStore(1..MaxCap, {0})
    /\ InitWorkers
    /\ InitConn(BOOLEAN)
    /\ ServerRunning
    /\ NoCalls
    /\ running = TRUE
    /\ \E msgs \in ListsOf(ConnMessages, MaxConnStream) :
         /\ sent = [w \in Workers |-> IF w = 1 THEN msgs ELSE <<>>]
         /\ stream = [w \in Workers |-> IF w = 1 THEN Wire(msgs) ELSE <<>>]
    /\ buffer = [w \in Workers |-> <<>>]
    /\ pc = [w \in Workers |-> IF w = 1 THEN "loop" ELSE "idle"]

NextConn ==
    \/ Next
    \/ Stop
    \/ StopClose

SpecConn == InitConnRun /\ [][NextConn]_vars


\* ------------------------------------------------------------ replies
\* A reply is the sequence of its pieces: the literal fields and separators
\* of the f-strings, the values put between them, CR and FS.  A string value
\* (a header field, the control id, the time stamp) is one piece, the error
\* text is a sequence of characters.

\* the elements of the MSH segment a header symbol stands for: msh[i] of the
\* code is element i + 1
MshFields(h) ==
    IF h = "S" THEN <<"MSH", "|", "^~\\&", "DEV">>
    ELSE IF h = "H"
    THEN <<"MSH", "|", "^~\\&", "DEV", "", "HOSP", "", "20240101", "">>
    ELSE <<"MSH", "|", "^~\\&", "DEV", "", "HOSP", "", "20240101", "",
           MshType(h), MshControlId(h), "P">>

\* s[:b]
SliceTo(s, b) == SubSeq(s, 1, IF b < Len(s) THEN b ELSE Len(s))

\* timestamp.strftime('%Y%m%d%H%M%S')
Strftime(t) == ToString(t)

IndexError == <<"IndexError">>

\* create_ack(original_msh), the clock reading t
create_ack_accept_unsuffixed(original_msh, t) ==
    IF Len(original_msh) < 5 THEN IndexError
    ELSE LET control_id == IF Len(original_msh) > 10
                           THEN original_msh[11] ELSE "UNKNOWN"
         IN <<"MSH", "|", "^~\\&", "|", "HL7_SERVER", "|", "|",
              original_msh[4], "|", original_msh[5], "|", Strftime(t), "|",
              "|", "ACK", "|", control_id, "|", "P", "|", "2.3.1", CR,
              "MSA", "|", "AA", "|", control_id, "|", "Message accepted", CR,
              FS>>
create_ack(original_msh, t) ==
    IF Len(original_msh) < 5 THEN IndexError
    ELSE LET control_id == IF Len(original_msh) > 10
                           THEN original_msh[11] ELSE "UNKNOWN"
         IN <<"MSH", "|", "^~\\&", "|", "HL7_SERVER", "|", "|",
              original_msh[4], "|", original_msh[5], "|", Strftime(t), "|",
              "|", "ACK", "|", control_id, "_ACK", "|", "P", "|", "2.3.1", CR,
              "MSA", "|", "AA", "|", control_id, "|", "Message accepted", CR,
              FS>>

\* create_nak(control_id, error_msg), the clock reading t
create_nak_untruncated(control_id, error_msg, t) ==
    <<"MSH", "|", "^~\\&", "|", "HL7_SERVER", "|", "|", "|", "|",
      Strftime(t), "|", "|", "ACK", "|", control_id, "_NAK", "|", "P", "|",
      "2.3.1", CR,
      "MSA", "|", "AE", "|", control_id, "|">> \o error_msg \o <<CR, FS>>
create_nak(control_id, error_msg, t) ==
    <<"MSH", "|", "^~\\&", "|", "HL7_SERVER", "|", "|", "|", "|",
      Strftime(t), "|", "|", "ACK", "|", control_id, "_NAK", "|", "P", "|",
      "2.3.1", CR,
      "MSA", "|", "AE", "|", control_id, "|">>
        \o SliceTo(error_msg, ErrorLimit) \o <<CR, FS>>

\* the headers create_ack is called with, the control ids create_nak is
\* called with, and error texts of every length up to a few characters past
\* the limit, each character distinct, and texts that hold a carriage
\* return, a field separator or the hard terminator (str(e) is any text)
AckHeaders == {MshFields(h) : h \in HeaderTokens}
ControlIds == {"UNKNOWN", "ABC123"}
SpecialTexts == {<<"e", c, "f">> : c \in {CR, "|", FS}}
ErrorTexts ==
    {[i \in 1..n |-> ToString(i)] : n \in 0..(ErrorLimit + MaxOver)}
        \cup SpecialTexts

InitReply ==
    /\ InitStore({MaxCap}, {0})
    /\ InitWorkers
    /\ InitConn({FALSE})
    /\ ServerRunning
    /\ running = TRUE
    /\ sent = [w \in Workers |-> <<>>]
    /\ stream = [w \in Workers |-> <<>>]
    /\ buffer = [w \in Workers |-> <<>>]
    /\ pc = [w \in Workers |-> "idle"]
    /\ NoCalls

CreateAck ==
    /\ \E msh \in AckHeaders, t \in 0..MaxTime :
         /\ call' = [fn |-> "create_ack", original_msh |-> msh, t |-> t]
         /\ result' = create_ack(msh, t)
    /\ UNCHANGED <<running, pc, storeVars, workerVars, connVars, srvVars>>

CreateNak ==
    /\ \E control_id \in ControlIds, error_msg \in ErrorTexts, t \in 0..MaxTime :
         /\ call' = [fn |-> "create_nak", control_id |-> control_id,
                     error_msg |-> error_msg, t |-> t]
         /\ result' = create_nak(control_id, error_msg, t)
    /\ UNCHANGED <<running, pc, storeVars, workerVars, connVars, srvVars>>

NextReply ==
    \/ CreateAck
    \/ CreateNak

SpecReply == InitReply /\ [][NextReply]_vars


\* ------------------------------------------------------------ sweep runs
\* the message of the sweep runs
SweepMessages == {[text |-> <<"A">>, wire |-> <<"A", FS>>]}

\* the server is running with a capacity of two or more (a sweep at
\* capacity removes at least one record) over a directory that has reached
\* max_files records, at most one of which cannot be deleted, and has
\* accepted one
\* connection, whose peer has sent this message a number of times, which the
\* handler's first recv has returned whole, and will close
InitSweep ==
    /\ max_files \in 2..MaxSweepCap
    /\ files = InitialFiles(max_files)
    /\ undeletable \in {{}} \cup {{x} : x \in Names(files)}
    /\ lastSweep = NoSweep
    /\ now = 0
    /\ file_lock = 0
    /\ in_flight = IF count_message_files(files) >= max_files THEN 0 ELSE -1
    /\ save_log = <<>>
    /\ InitWorkers
    /\ InitConn({FALSE})
    /\ ServerRunning
    /\ NoCalls
    /\ running = TRUE
    /\ \E msgs \in ListsOf(SweepMessages, MaxSweepStream) :
         /\ sent = [w \in Workers |-> IF w = 1 THEN msgs ELSE <<>>]
         /\ buffer = [w \in Workers |-> IF w = 1 THEN Wire(msgs) ELSE <<>>]
    /\ stream = [w \in Workers |-> <<>>]
    /\ pc = [w \in Workers |-> IF w = 1 THEN "scan" ELSE "idle"]

\* the steps of a handler whose messages all parse
NextSweep ==
    \E w \in Workers :
        \/ HandleClientLoop(w)
        \/ HandleClientRecv(w)
        \/ HandleClientScan(w)
        \/ HandleClientClose(w)
        \/ ProcessMessageParse(w)
        \/ SaveMessageLock(w)
        \/ SaveMessageCount(w)
        \/ SaveMessageCleanup(w)
        \/ SaveMessageOpen(w)
        \/ SaveMessageWrite(w)
        \/ SaveMessageUnlock(w)
        \/ ProcessMessageAck(w)

SpecSweep == InitSweep /\ [][NextSweep]_vars


\* ------------------------------------------------------------ claims
\* what the claims call a terminator and white space
Terminators == {FS, CR}
Blank(c) == c \in {SP, CR, FS}

\* t is s without its leading and trailing white space
IsTrimOf(t, s) ==
    \E i \in 1..(Len(s) + 1), j \in 0..Len(s) :
        /\ t = SubSeq(s, i, j)
        /\ \A k \in 1..(i - 1) : Blank(s[k])
        /\ \A k \in (j + 1)..Len(s) : Blank(s[k])
        /\ t # <<>> => ~Blank(t[1]) /\ ~Blank(t[Len(t)])

\* the 1-based place of the first element of s that is in set C (0: none)
FirstIn(s, C) ==
    IF \E i \in 1..Len(s) : s[i] \in C
    THEN CHOOSE i \in 1..Len(s) : s[i] \in C /\ \A j \in 1..(i - 1) : s[j] \notin C
    ELSE 0

\* C1: a positive acknowledgment (AA) is sent only for a message whose record
\* the store wrote; a failed save is answered with AE, never with AA.
C1_AckOnlyIfPersisted ==
    \A w \in Workers : \A i \in 1..Len(replies[w]) :
        replies[w][i].code = "AA" => replies[w][i].stored

\* C2: whenever save_message is about to return after writing its record,
\* the store holds at most max_files records.
C2_CountWithinCapacityAfterSave ==
    \A w \in Workers :
        (pc[w] = "unlock" /\ saved[w]) => count_message_files(files) <= max_files

\* C3: whatever the division into reads, every text handed to
\* process_message is the next of the well-formed messages the peer sent,
\* unaltered, and once the connection is closed all of them have been handed.
C3_FramingYieldsSentMessages ==
    \A w \in Workers :
        /\ Len(handed[w]) <= Len(sent[w])
        /\ \A i \in 1..Len(handed[w]) : handed[w][i] = sent[w][i].text
        /\ pc[w] = "closed" => Len(handed[w]) = Len(sent[w])

\* C4 (as claimed): every extraction cuts the buffer at the earliest
\* terminator of either kind: the text is the trimmed prefix before it, the
\* new buffer is all that follows it.
C4_CutsAtEarliestTerminator ==
    \A w \in Workers :
        lastCut[w].n > 0 =>
            LET b == lastCut[w].before
                p == FirstIn(b, Terminators)
            IN /\ IsTrimOf(lastCut[w].text, SubSeq(b, 1, p - 1))
               /\ lastCut[w].after = SubSeq(b, p + 1, Len(b))

\* C4 (amended): every extraction cuts the buffer at the first 0x1C when the
\* buffer holds one, and at the first 0x0D otherwise: the text is the
\* trimmed prefix before that place, the new buffer is all that follows it.
C4_CutsAtHardElseSoft ==
    \A w \in Workers :
        lastCut[w].n > 0 =>
            LET b == lastCut[w].before
                p == IF FirstIn(b, {FS}) # 0 THEN FirstIn(b, {FS})
                     ELSE FirstIn(b, {CR})
            IN /\ p > 0
               /\ IsTrimOf(lastCut[w].text, SubSeq(b, 1, p - 1))
               /\ lastCut[w].after = SubSeq(b, p + 1, Len(b))

\* an extraction from a buffer in which a carriage return precedes the first
\* hard terminator
C4_Witness ==
    \E w \in Workers :
        /\ lastCut[w].n > 0
        /\ FirstIn(lastCut[w].before, {CR}) > 0
        /\ FirstIn(lastCut[w].before, {CR}) < FirstIn(lastCut[w].before, {FS})

\* C5: the boundary an extraction takes is the first 0x1C anywhere in the
\* buffer, and the first 0x0D only when the buffer holds no 0x1C; the text
\* used has no surrounding white space.
C5_HardTerminatorFirst ==
    \A w \in Workers :
        lastCut[w].n > 0 =>
            LET b == lastCut[w].before
                p == lastCut[w].end_pos + 1
                t == lastCut[w].text
            IN /\ p \in 1..Len(b)
               /\ (\E i \in 1..Len(b) : b[i] = FS)
                    => b[p] = FS /\ \A j \in 1..(p - 1) : b[j] # FS
               /\ (\A i \in 1..Len(b) : b[i] # FS)
                    => b[p] = CR /\ \A j \in 1..(p - 1) : b[j] # CR
               /\ IsTrimOf(t, SubSeq(b, 1, p - 1))

\* an extraction at a hard terminator whose prefix lost white space to the
\* trimming and left a text
C5_Witness ==
    \E w \in Workers :
        /\ lastCut[w].n > 0
        /\ lastCut[w].before[lastCut[w].end_pos + 1] = FS
        /\ lastCut[w].text # <<>>
        /\ Len(lastCut[w].text) < lastCut[w].end_pos

\* C6: no two workers are at once between the read of the record count and
\* the end of their write, a worker in that section holds the store lock,
\* and a sweep run by a worker runs with the lock held by that worker.
C6_StoreCriticalSection ==
    /\ \A v, w \in Workers : (InCritical(v) /\ InCritical(w)) => v = w
    /\ \A w \in Workers : InCritical(w) => file_lock = w
    /\ lastSweep.by # 0 => lastSweep.lock = lastSweep.by

\* a worker is past the count and ahead of its write while another waits for
\* the lock
C6_Witness ==
    \E v, w \in Workers : pc[v] = "write" /\ pc[w] = "lock"

\* C7: when every worker has saved its one message, the record count
\* exceeds max_files by no more than the number of saves that were under way
\* when the store first held max_files records.
C7_OvershootWithinInFlight ==
    (\A w \in Workers : pc[w] = "scan" /\ replies[w] # <<>> /\ replies[w][1].stored) =>
        count_message_files(files) <= max_files + (IF in_flight < 0 THEN 0 ELSE in_flight)

\* C8: a sweep in which no deletion fails removes exactly floor(n/2) of the n
\* records it found, and none of them is more recently modified than a
\* record it kept.
C8_SweepRemovesOldestHalf ==
    (lastSweep.n > 0 /\ Names(lastSweep.before) \cap undeletable = {}) =>
        LET deleted == lastSweep.before \ lastSweep.after
        IN /\ lastSweep.after \subseteq lastSweep.before
           /\ Cardinality(deleted) = Cardinality(lastSweep.before) \div 2
           /\ \A d \in deleted, r \in lastSweep.after : d.mtime <= r.mtime

\* a sweep run by a save that removed a record older than one it kept
C8_Witness ==
    /\ lastSweep.by # 0
    /\ \E d \in lastSweep.before \ lastSweep.after, r \in lastSweep.after :
           d.mtime < r.mtime

\* C9: after a save that ran a sweep and wrote its record, the store holds
\* (count_before - floor(count_before / 2)) + 1 records.
C9_CountAfterEvictingSave ==
    \A w \in Workers :
        (pc[w] = "unlock" /\ saved[w] /\ evicted[w]) =>
            count_message_files(files) =
                (current_count[w] - (current_count[w] \div 2)) + 1

\* C10: a stored record is never overwritten or altered by a later save, and
\* leaves the store only through the eviction sweep.
C10_RecordsNeverOverwritten ==
    [][\A f \in files :
          f.complete =>
              \/ f \in files'
              \/ /\ f.name \notin Names(files')
                 /\ \E w \in Workers : pc[w] = "cleanup" /\ pc'[w] = "open"]_vars

\* C11: a record is visible under its final name only once its full content
\* has been written: at no point of a save, and after no failed write, does
\* the store directory hold a file with partial content.
C11_NoPartialFileVisible ==
    \A f \in files : f.complete

\* the state the life cycle calls Stopped
Stopped == srv_pc = "done" /\ ~running /\ server_socket = "closed"

\* C15: a stop request issued while the server is Running eventually brings
\* it to Stopped; from the request on the running flag is false and the
\* accept loop makes at most one more poll; the listening socket ends closed;
\* an accept that times out logs no error, closes nothing and goes back to
\* the test of the loop.
C15_StopReachesStopped ==
    /\ stop_requested ~> Stopped
    /\ [](stop_requested => (~running /\ polls_after_stop <= 1))
    /\ [][(last_accept = "none" /\ last_accept' = "timeout") =>
              /\ srv_pc' = "loop"
              /\ running' = running
              /\ server_socket' = server_socket
              /\ close_calls' = close_calls]_vars

\* another thread's stop() found the server polling, an accept timed out on
\* the way, and start() has returned with the socket closed
C15_Witness ==
    /\ stop_requested
    /\ signals = 0
    /\ stop_pc = "done"
    /\ polls_after_stop = 1
    /\ Stopped

\* C16: over one life cycle the listening socket is closed exactly once: on
\* every shutdown path close() has been called one time when start() has
\* returned, not zero times and not twice.
C16_ListenerClosedExactlyOnce ==
    (srv_pc = "done" /\ server_socket # "none") => close_calls = 1

\* the worker has left the loop of handle_client
Ended(w) == pc[w] \in {"close", "closed"}

\* C12: a message that fails parsing never ends its connection: a handler
\* leaves its loop only on an empty read, a recv error or the stop flag; the
\* failing message is answered with AE and not stored, the messages after it
\* are handed to process_message and answered, and a peer that closes after
\* its last message has had every message of its stream processed.
C12_ParseFailureKeepsConnection ==
    \A w \in Workers :
        /\ Ended(w) => exit_path[w] \in {"empty_read", "recv_error", "stopped"}
        /\ ~io_faults =>
             \A i \in 1..Len(handed[w]) :
                 (/\ ~ParseOk(handed[w][i])
                  /\ (i < Len(handed[w]) \/ pc[w] \notin {"parse", "nak"})) =>
                     /\ i <= Len(replies[w])
                     /\ replies[w][i] = [code |-> "AE", text |-> handed[w][i],
                                         stored |-> FALSE]
        /\ (~io_faults /\ pc[w] = "closed" /\ exit_path[w] = "empty_read") =>
               /\ handed[w] = Texts(sent[w])
               /\ Len(replies[w]) = Len(sent[w])

\* the first message of a connection failed to parse and got AE, the second
\* one was accepted, and the peer closed
C12_Witness ==
    \E w \in Workers :
        /\ ~io_faults
        /\ pc[w] = "closed"
        /\ exit_path[w] = "empty_read"
        /\ Len(replies[w]) = 2
        /\ ~ParseOk(handed[w][1])
        /\ replies[w][1].code = "AE"
        /\ replies[w][2].code = "AA"

\* C13: within one connection the replies are written in receipt order: the
\* i-th reply answers the i-th message handed to process_message, at most
\* one message is without its reply, and none is when the handler extracts
\* the next message or begins the next read.
C13_RepliesInReceiptOrder ==
    \A w \in Workers :
        /\ Len(replies[w]) <= Len(handed[w])
        /\ Len(handed[w]) <= Len(replies[w]) + 1
        /\ pc[w] \in {"loop", "recv", "scan", "close", "closed"} =>
               Len(replies[w]) = Len(handed[w])
        /\ \A i \in 1..Len(replies[w]) : replies[w][i].text = handed[w][i]

\* two messages have been answered and a further read is about to begin
C13_Witness ==
    \E w \in Workers :
        /\ pc[w] = "recv"
        /\ Len(replies[w]) = 2
        /\ stream[w] # <<>>

\* C14: a message whose header has fewer fields than the control id needs is
\* tolerated: once the store has written its record it is answered with a
\* positive acknowledgment, not a negative one (no recv or send raises in
\* the run).
C14_ShortHeaderAccepted ==
    ~io_faults =>
        \A w \in Workers : \A i \in 1..Len(replies[w]) :
            (/\ ParseOk(replies[w][i].text)
             /\ MshLen(Head(replies[w][i].text)) <= 10
             /\ replies[w][i].stored) =>
                replies[w][i].code = "AA"

\* C17: every connection handler closes its client socket exactly once,
\* whichever way it leaves: no close before the handler has ended, one when
\* it has.
C17_ClientSocketClosedOnce ==
    \A w \in Workers : closes[w] = IF pc[w] = "closed" THEN 1 ELSE 0

\* a handler that lost a reply to a failing send and then left on a recv
\* error has closed its socket once
C17_Witness ==
    \E w \in Workers :
        /\ pc[w] = "closed"
        /\ closes[w] = 1
        /\ exit_path[w] = "recv_error"
        /\ lost[w] > 0

\* C18 as stated: a handler serving a peer when stop() is called goes on
\* until the peer closes or an I/O error occurs.
C18_HandlersServeUntilPeerCloses ==
    \A w \in Workers :
        Ended(w) => exit_path[w] \in {"empty_read", "recv_error"}

\* C18: stop() clears the running flag and closes the listening socket and
\* touches no connection: no client socket is closed, no read, message or
\* reply is interrupted.  A handler tests the flag at the head of each pass
\* of its receive loop, and only there: it goes on to recv when the flag is
\* set and leaves for the close of its socket when it is not.
C18_StopSeenAtLoopTestOnly ==
    /\ [][((running /\ ~running') \/ close_calls' # close_calls) =>
              /\ pc' = pc
              /\ closes' = closes
              /\ exit_path' = exit_path
              /\ stream' = stream
              /\ buffer' = buffer
              /\ replies' = replies]_vars
    /\ [][\A w \in Workers :
              (pc[w] = "loop" /\ pc'[w] # "loop") =>
                  pc'[w] = IF running THEN "recv" ELSE "close"]_vars
    /\ [](\A w \in Workers :
              exit_path[w] = "stopped" => (~running /\ stop_pc # "idle"))

\* a handler answered a message, found the flag cleared and closed the
\* connection with bytes of the peer still unread
C18_Witness ==
    \E w \in Workers :
        /\ pc[w] = "closed"
        /\ exit_path[w] = "stopped"
        /\ Len(replies[w]) >= 1
        /\ stream[w] # <<>>

\* the pieces of s between the separators sep, in order
RECURSIVE Split(_, _)
Split(s, sep) ==
    IF Find(s, sep) = -1 THEN <<s>>
    ELSE <<Slice(s, 0, Find(s, sep))>> \o Split(SliceFrom(s, Find(s, sep) + 1), sep)

\* the fields of the n-th segment of a reply
ReplyFields(r, n) == Split(Split(r, CR)[n], "|")

\* C19: create_ack applied to a header with control id C returns a reply
\* whose header segment has C followed by _ACK as its control id (the tenth
\* field), whose second segment is MSA with code AA followed by C, and whose
\* last character is 0x1C.
C19_AckEchoesControlId ==
    (call.fn = "create_ack" /\ Len(call.original_msh) > 10) =>
        LET C == call.original_msh[11]
        IN /\ ReplyFields(result, 1)[1] = <<"MSH">>
           /\ ReplyFields(result, 1)[10] = <<C, "_ACK">>
           /\ ReplyFields(result, 2)[1] = <<"MSA">>
           /\ ReplyFields(result, 2)[2] = <<"AA">>
           /\ ReplyFields(result, 2)[3] = <<C>>
           /\ result[Len(result)] = FS

\* create_ack has answered a header that carries control id "A"
C19_Witness ==
    /\ call.fn = "create_ack"
    /\ Len(call.original_msh) > 10
    /\ call.original_msh[11] = "A"
    /\ result # IndexError

\* C20: create_nak(controlId, errorText) returns a reply whose second segment
\* is MSA, AE, controlId and then errorText itself when that has at most 100
\* characters and its first 100 characters when it has more, and whose last
\* character is 0x1C.
C20_NakTruncatesErrorText ==
    call.fn = "create_nak" =>
        LET start == Find(result, CR) + 1
            kept == IF Len(call.error_msg) <= 100 THEN call.error_msg
                    ELSE SubSeq(call.error_msg, 1, 100)
        IN /\ ReplyFields(result, 1)[1] = <<"MSH">>
           /\ Slice(result, start, Len(result) - 2) =
                  <<"MSA", "|", "AE", "|", call.control_id, "|">> \o kept
           /\ result[Len(result) - 1] = CR
           /\ result[Len(result)] = FS

\* create_nak has been given an error text of more than 100 characters
C20_Witness ==
    /\ call.fn = "create_nak"
    /\ Len(call.error_msg) > 100
    /\ call.control_id = "ABC123"
    /\ result[Len(result)] = FS

\* a reply of two segments: a header segment of twelve fields and an MSA
\* segment of four, each closed by CR, and 0x1C at the end and nowhere else
WellFormedReply(r) ==
    /\ Len(r) >= 2
    /\ r[Len(r)] = FS
    /\ r[Len(r) - 1] = CR
    /\ Find(r, FS) = Len(r) - 1
    /\ LET segs == Split(SubSeq(r, 1, Len(r) - 2), CR)
       IN /\ Len(segs) = 2
          /\ Split(segs[1], "|")[1] = <<"MSH">>
          /\ Len(Split(segs[1], "|")) = 12
          /\ Split(segs[2], "|")[1] = <<"MSA">>
          /\ Len(Split(segs[2], "|")) = 4

\* C21: every reply create_ack or create_nak returns is a well-formed message
\* of exactly two segments, whatever the input, an error text holding CR,
\* "|" or 0x1C included.
C21_RepliesWellFormed ==
    (call.fn # "none" /\ result # IndexError) => WellFormedReply(result)

\* C22: a record of the oldest half whose deletion fails is skipped and the
\* sweep goes on: the records a sweep removes are exactly those of the
\* floor(n/2) oldest that can be deleted, and the save that ran the sweep
\* goes on to open its file.
C22_SweepSkipsUndeletable ==
    /\ [](lastSweep.n > 0 =>
            \E K \in SUBSET lastSweep.before :
                /\ Cardinality(K) = Cardinality(lastSweep.before) \div 2
                /\ \A k \in K, r \in lastSweep.before \ K : k.mtime <= r.mtime
                /\ lastSweep.before \ lastSweep.after =
                       {f \in K : f.name \notin undeletable})
    /\ [][\A w \in Workers :
              (pc[w] = "cleanup" /\ pc'[w] # "cleanup") =>
                  (pc'[w] = "open" /\ evicted'[w])]_vars

\* a sweep left one of the oldest records in place because it could not be
\* deleted, removed the other records of the oldest half, and the save that
\* ran it wrote its record
C22_Witness ==
    \E w \in Workers :
        /\ lastSweep.by = w
        /\ evicted[w]
        /\ saved[w]
        /\ pc[w] = "unlock"
        /\ \E u \in lastSweep.after :
               /\ u.name \in undeletable
               /\ \A f \in lastSweep.before : u.mtime <= f.mtime
        /\ Cardinality(lastSweep.before \ lastSweep.after) >= 1
        /\ Cardinality(lastSweep.before \ lastSweep.after) =
               (Cardinality(lastSweep.before) \div 2) - 1
        /\ \E f \in files : f.name = filepath[w] /\ f.complete

C24_NakMeansNotStored ==
    ~io_faults =>
        \A w \in Workers : \A i \in 1..Len(replies[w]) :
            replies[w][i].code = "AE" => ~replies[w][i].stored

\* the handler is between two messages
AtRest(w) == pc[w] \in {"idle", "loop", "recv", "scan", "close", "closed"}

\* C26: as long as sends succeed, every non-empty text extracted on a
\* connection gets exactly one reply, AA or AE: the replies never outnumber
\* the texts handed to process_message, the i-th reply answers the i-th
\* text, and no text is unanswered when the handler is between messages.  An
\* extraction that yields an empty text hands nothing over and writes no
\* reply.
C26_OneReplyPerMessage ==
    /\ [](~io_faults =>
            \A w \in Workers :
                /\ Len(replies[w]) <= Len(handed[w])
                /\ AtRest(w) => Len(replies[w]) = Len(handed[w])
                /\ \A i \in 1..Len(handed[w]) : handed[w][i] # <<>>
                /\ \A i \in 1..Len(replies[w]) :
                       /\ replies[w][i].text = handed[w][i]
                       /\ replies[w][i].code \in {"AA", "AE"})
    /\ [][\A w \in Workers :
              (lastCut'[w].n = lastCut[w].n + 1 /\ lastCut'[w].text = <<>>) =>
                  /\ handed' = handed
                  /\ replies' = replies
                  /\ pc'[w] = "scan"]_vars

\* a connection on which one message was answered once and the terminator
\* after it cut an empty text, which got no reply; the peer has closed
C26_Witness ==
    \E w \in Workers :
        /\ ~io_faults
        /\ pc[w] = "closed"
        /\ exit_path[w] = "empty_read"
        /\ lastCut[w].n = 2
        /\ lastCut[w].text = <<>>
        /\ Len(handed[w]) = 1
        /\ Len(replies[w]) = 1

\* C25: a stop request is never lost: once a stop() called from another
\* thread during start() has returned, the accept loop makes no pass with the
\* flag set on the listening socket that stop() closed (a pass that logs the
\* error of accept and goes back to the test of the loop).
C25_StopNeverLost ==
    [][(/\ stop_pc = "done"
        /\ signals = 0
        /\ srv_pc = "accept"
        /\ server_socket = "closed") =>
           ~(last_accept' = "error_logged" /\ srv_pc' = "loop" /\ running')]_vars

====
